---- MODULE Spec2Model ----
(***************************************************************************)
(* Model of the build command of snowpack, src/src/commands/build.ts.     *)
(*                                                                         *)
(* Strings are sequences of one-character strings, so that the prefix,    *)
(* substring and split tests of the code are computed and not assumed.    *)
(* The control flow of command() is cut at its await points: what runs    *)
(* between two awaits is one action.  Lint processes settle between two   *)
(* such actions.                                                           *)
(***************************************************************************)
EXTENDS Naturals, Sequences, FiniteSets, TLC

(***************************************************************************)
(* Bounds of the model.                                                    *)
(***************************************************************************)
MaxWorkers == 3
MaxFiles == 2
\* how many times a resolver is applied to its own output
MaxApply == 2

(***************************************************************************)
(* String literals of the source.                                          *)
(***************************************************************************)
s_build == <<"b","u","i","l","d">>
s_buildC == <<"b","u","i","l","d",":">>
s_pluginC == <<"p","l","u","g","i","n",":">>
s_lintallC == <<"l","i","n","t","a","l","l",":">>
s_mountC == <<"m","o","u","n","t",":">>
s_mount == <<"m","o","u","n","t">>
s_bundleId == <<"b","u","n","d","l","e",":","*">>
s_to == <<"-","-","t","o">>
s_http == <<"h","t","t","p">>
s_slash == <<"/">>
s_dotSlash == <<".","/">>
s_dotDotSlash == <<".",".","/">>
s_webModules == <<"/","w","e","b","_","m","o","d","u","l","e","s","/">>
s_webModulesDir == <<"/","w","e","b","_","m","o","d","u","l","e","s">>
s_dotJs == <<".","j","s">>
s_packageJson == <<"/","p","a","c","k","a","g","e",".","j","s","o","n">>
s_babelrc == <<"/",".","b","a","b","e","l","r","c">>
s_babelDefault == <<"^","7",".","9",".","0">>
s_bundleOut == <<"/","i","n","d","e","x",".","h","t","m","l">>

(***************************************************************************)
(* String operations of JavaScript and of node's path module.              *)
(***************************************************************************)
Drop(s, n) == SubSeq(s, n + 1, Len(s))

startsWith(s, p) == Len(p) <= Len(s) /\ SubSeq(s, 1, Len(p)) = p

endsWith(s, p) == Len(p) <= Len(s) /\ SubSeq(s, Len(s) - Len(p) + 1, Len(s)) = p

includes(s, sub) ==
  \E i \in 0..(Len(s) - Len(sub)) : SubSeq(s, i + 1, i + Len(sub)) = sub

\* String.prototype.split with a one-character separator
split(s, sep) ==
  LET RECURSIVE go(_, _, _)
      go(i, cur, acc) ==
        IF i > Len(s) THEN Append(acc, cur)
        ELSE IF s[i] = sep THEN go(i + 1, <<>>, Append(acc, cur))
        ELSE go(i + 1, Append(cur, s[i]), acc)
  IN go(1, <<>>, <<>>)

isSpace(c) == c \in {" ", "\t", "\n"}

\* String.prototype.split(/\s+/): a run of white space is one separator
splitWS(s) ==
  LET RECURSIVE go(_, _, _)
      go(i, cur, acc) ==
        IF i > Len(s) THEN Append(acc, cur)
        ELSE IF isSpace(s[i])
          THEN IF i > 1 /\ isSpace(s[i - 1])
                 THEN go(i + 1, cur, acc)
                 ELSE go(i + 1, <<>>, Append(acc, cur))
        ELSE go(i + 1, Append(cur, s[i]), acc)
  IN go(1, <<>>, <<>>)

\* path.extname(p).substr(1): the text after the last dot of the last path
\* segment, empty when there is no dot or the segment starts with its only dot
extOf(p) ==
  LET slashes == {i \in 1..Len(p) : p[i] = "/"}
      from == IF slashes = {} THEN 0 ELSE CHOOSE i \in slashes : \A j \in slashes : j <= i
      base == Drop(p, from)
      dots == {i \in 1..Len(base) : base[i] = "."}
      last == CHOOSE i \in dots : \A j \in dots : j <= i
  IN IF dots = {} \/ last = 1 \/ base = <<".", ".">> THEN <<>>
     ELSE Drop(base, last)

\* s.replace(new RegExp(`${ext}$`), to): the trailing ext is replaced
replaceExt(s, ext, to) ==
  IF endsWith(s, ext) THEN SubSeq(s, 1, Len(s) - Len(ext)) \o to ELSE s

(***************************************************************************)
(* The inputs of a run: worker declarations (config.scripts, in the order  *)
(* of Object.entries), the files glob.sync finds under config.include, the *)
(* code each worker produces and the dependency import map.                *)
(***************************************************************************)
id_eslint == <<"l","i","n","t","a","l","l",":","e","s","l","i","n","t">>
id_tsc == <<"l","i","n","t","a","l","l",":","t","s","c">>
id_public == <<"m","o","u","n","t",":","p","u","b","l","i","c">>
id_web == <<"m","o","u","n","t",":","w","e","b","_","m","o","d","u","l","e","s">>
id_ts == <<"b","u","i","l","d",":","t","s">>
id_tsx == <<"b","u","i","l","d",":","t","s","x">>
id_svelte == <<"p","l","u","g","i","n",":","s","v","e","l","t","e",",","t","s">>
id_buildx == <<"b","u","i","l","d","x">>
id_run == <<"r","u","n",":","t","s">>
cmd_mountPublic == <<"m","o","u","n","t"," ","p","u","b","l","i","c">>
cmd_mntPublic == <<"m","n","t"," ","p","u","b","l","i","c">>
cmd_mountPublicDocs == <<"m","o","u","n","t"," ","p","u","b","l","i","c"," ","d","o","c","s">>
cmd_mountWeb == <<"m","o","u","n","t"," ","w","e","b","_","m","o","d","u","l","e","s">>
cmd_mountWebTo == <<"m","o","u","n","t"," "," ","w","e","b","_","m","o","d","u","l","e","s"," ","-","-","t","o"," ","/","l","i","b">>
cmd_shell == <<"c","m","d">>
cmd_NA == <<"N","A">>
f_license == <<"L","I","C","E","N","S","E">>
f_a == <<"a",".","t","s">>
f_b == <<"b",".","s","v","e","l","t","e">>
f_c == <<"c",".","t","s","x">>
sp_react == <<"r","e","a","c","t">>
sp_lodash == <<"l","o","d","a","s","h">>
sp_relTs == <<".","/","b",".","t","s">>
sp_relNone == <<".","/","u","t","i","l">>
sp_url == <<"h","t","t","p","s",":","/","/","x",".","y","/","z",".","t","s">>
sp_root == <<"/","l","i","b","/","x",".","t","s">>
v_react == <<".","/","r","e","a","c","t",".","j","s">>
sp_upJsx == <<".",".","/","c",".","j","s","x">>
sp_relCss == <<".","/","d",".","c","s","s">>
sp_relDotDir == <<".","/","a",".","b","/","c">>
sp_ftp == <<"f","t","p",":","/","/","h","/","x",".","t","s">>
sp_httpx == <<"h","t","t","p","x">>

\* the declarations a configuration is drawn from, with the commands each may have
DeclPool ==
  << [id |-> id_eslint, cmds |-> {cmd_shell}],
     [id |-> id_public, cmds |-> {cmd_mountPublic, cmd_mntPublic, cmd_mountPublicDocs}],
     [id |-> id_ts,     cmds |-> {cmd_shell}],
     [id |-> id_tsc,    cmds |-> {cmd_shell}],
     [id |-> id_web,    cmds |-> {cmd_mountWeb, cmd_mountWebTo, cmd_mntPublic}],
     [id |-> id_svelte, cmds |-> {cmd_shell}],
     [id |-> id_tsx,    cmds |-> {cmd_shell}],
     [id |-> id_buildx, cmds |-> {cmd_shell}],
     [id |-> id_run,    cmds |-> {cmd_shell}] >>

\* the source files glob.sync may return, in its sorted order
FilePool == << f_license, f_a, f_b, f_c >>

\* the import specifiers of the code a worker produces for a source file
ImportsOf(f) ==
  CASE f = f_a -> << sp_react, sp_lodash, sp_relTs >>
    [] f = f_b -> << sp_react, sp_lodash, sp_url >>
    [] f = f_c -> << sp_relNone, sp_root >>
    [] OTHER -> << >>

\* whether the command of a build worker writes diagnostics to its standard
\* error for a source file
StderrOf(f) == f \in {f_license, f_c}

\* dependencyImportMap.imports, read from import-map.json
dependencyImportMap == [s \in {sp_react} |-> v_react]

Manifests == [name : BOOLEAN, babel : {<< >>, <<"7">>}]

Range(s) == {s[i] : i \in DOMAIN s}

\* the subsequence of s at the indices in S
RECURSIVE SubSeqAt(_, _, _)
SubSeqAt(s, S, i) ==
  IF i > Len(s) THEN << >>
  ELSE (IF i \in S THEN << s[i] >> ELSE << >>) \o SubSeqAt(s, S, i + 1)

VARIABLES
  scripts,      \* config.scripts: sequence of [id, cmd]
  isBundled,    \* config.devOptions.bundle
  include,      \* whether config.include is set
  srcFiles,     \* the files under config.include
  pc,           \* the await at which command() stands, or how it ended
  at,           \* [w, f]: the worker (index in relevantWorkers) and the file (index
                \* in srcFiles) awaited, or at which command() threw
  lint,         \* lint worker (index in relevantWorkers) -> running, ok, failed
  unhandled,    \* what the runtime does with an unhandled rejection
  events,       \* what command() itself emitted on messageBus, in order
  lintEvents,   \* what each lint worker's handlers emitted, in order
  disk,         \* directory that exists -> set of entries
  writes,       \* the calls of fs.writeFile by the build and plugin workers, in order
  tempBuildManifest,
  thrown,       \* what command() threw, "none" while it has not
  specifier,    \* the resolvers alone: the import specifier given to a resolver
  extMapping,   \* the resolvers alone: the table of source extensions
  resolver,     \* the resolvers alone: "build" or "plugin"
  resolved      \* the resolvers alone: what the resolver returned, applied again
                \* to its own output each time

resolving == << specifier, extMapping, resolver, resolved >>
config == << scripts, isBundled, include, srcFiles, resolving >>
run == << pc, at, lint, unhandled, events, lintEvents, disk, writes, tempBuildManifest, thrown >>
vars == << scripts, isBundled, include, srcFiles, pc, at, lint, unhandled,
           events, lintEvents, disk, writes, tempBuildManifest, thrown,
           specifier, extMapping, resolver, resolved >>

(***************************************************************************)
(* Worker classification, lines 28-73.                                      *)
(***************************************************************************)
allRegisteredWorkers == scripts

\* line 39
noBuildScripts ==
  \A i \in DOMAIN allRegisteredWorkers : ~startsWith(allRegisteredWorkers[i].id, s_build)

\* isRelevantId with the prefix of line 39, which has no colon
isRelevantId_noColon(id) ==
  \/ startsWith(id, s_build)
  \/ startsWith(id, s_pluginC)
  \/ startsWith(id, s_lintallC)
  \/ startsWith(id, s_mountC)

\* lines 54-59
isRelevantId(id) ==
  \/ startsWith(id, s_buildC)
  \/ startsWith(id, s_pluginC)
  \/ startsWith(id, s_lintallC)
  \/ startsWith(id, s_mountC)

isTransformId(id) == startsWith(id, s_buildC) \/ startsWith(id, s_pluginC)

relevantWorkers ==
  SelectSeq(allRegisteredWorkers, LAMBDA w : isRelevantId(w.id))
    \o (IF isBundled THEN << [id |-> s_bundleId, cmd |-> cmd_NA] >> ELSE << >>)

\* lines 63-67: the worker is pushed under each extension of its id
RECURSIVE pushExts(_, _, _, _)
pushExts(map, exts, k, w) ==
  IF k > Len(exts) THEN map
  ELSE LET ext == exts[k]
           old == IF ext \in DOMAIN map THEN map[ext] ELSE << >>
           new == [e \in (DOMAIN map) \cup {ext} |->
                     IF e = ext THEN Append(old, w) ELSE map[e]]
       IN pushExts(new, exts, k + 1, w)

RECURSIVE extMapFrom(_, _)
extMapFrom(map, i) ==
  IF i > Len(allRegisteredWorkers) THEN map
  ELSE LET w == allRegisteredWorkers[i]
       IN IF isTransformId(w.id)
            THEN extMapFrom(pushExts(map, split(split(w.id, ":")[2], ","), 1, w), i + 1)
            ELSE extMapFrom(map, i + 1)

extToWorkerMap == extMapFrom(<< >>, 1)

\* config.devOptions.out, a directory other than .build
finalDirectoryLoc == "out"
buildDirectoryLoc == IF isBundled THEN ".build" ELSE finalDirectoryLoc
Dirs == {"out", ".build"}

config_dist == <<"/","_","d","i","s","t","_">>

(***************************************************************************)
(* Events on messageBus.                                                    *)
(***************************************************************************)
WorkerUpdate(id, state) == [type |-> "WORKER_UPDATE", id |-> id, arg |-> state]
WorkerMsg(id, level) == [type |-> "WORKER_MSG", id |-> id, arg |-> level]
WorkerComplete(id, error) == [type |-> "WORKER_COMPLETE", id |-> id, arg |-> error]
MissingWebModule(spec) == [type |-> "MISSING_WEB_MODULE", specifier |-> spec]
Console(level) == [type |-> "CONSOLE", level |-> level]

(***************************************************************************)
(* Files of the output directories.                                         *)
(***************************************************************************)
Entry(path, kind, by, body) ==
  [path |-> path, kind |-> kind, by |-> by, body |-> body, name |-> FALSE, babel |-> << >>]

\* writeTo with a write that leaves a file already at the path as it is
writeTo_keepsOld(dir, e) ==
  IF \E x \in dir : x.path = e.path THEN dir ELSE dir \cup {e}

\* writing a path replaces what was there
writeTo(dir, e) == {x \in dir : x.path # e.path} \cup {e}

(***************************************************************************)
(* Extension remapping and import rewriting.                                *)
(***************************************************************************)
\* ./src-file-extension-mapping
srcFileExtensionMapping ==
  [e \in {<<"t","s">>, <<"t","s","x">>, <<"j","s","x">>, <<"s","v","e","l","t","e">>}
     |-> <<"j","s">>]

\* resolveRelativeIn with the mapped extension added after the extension of
\* the specifier
resolveRelativeIn_append(mapping, spec) ==
  LET ext == extOf(spec)
  IN IF ext = << >> THEN [out |-> spec, ev |-> << Console("error") >>]
     ELSE IF ext \in DOMAIN mapping
       THEN [out |-> spec \o <<".">> \o mapping[ext], ev |-> << >>]
       ELSE [out |-> spec, ev |-> << >>]

\* lines 206-217 and 251-262: a specifier that starts with ./ or ../, with
\* mapping the table imported as srcFileExtensionMapping
resolveRelativeIn(mapping, spec) ==
  LET ext == extOf(spec)
  IN IF ext = << >> THEN [out |-> spec, ev |-> << Console("error") >>]
     ELSE IF ext \in DOMAIN mapping
       THEN [out |-> replaceExt(spec, ext, mapping[ext]), ev |-> << >>]
       ELSE [out |-> spec, ev |-> << >>]

resolveRelative(spec) == resolveRelativeIn(srcFileExtensionMapping, spec)

\* resolveBuildIn with an unresolved bare specifier left in place of
\* /web_modules/
resolveBuildIn_noPrefix(mapping, spec) ==
  IF startsWith(spec, s_http) \/ startsWith(spec, s_slash)
    THEN [out |-> spec, ev |-> << >>]
  ELSE IF startsWith(spec, s_dotSlash) \/ startsWith(spec, s_dotDotSlash)
    THEN resolveRelativeIn(mapping, spec)
  ELSE IF spec \in DOMAIN dependencyImportMap /\ dependencyImportMap[spec] # << >>
    THEN [out |-> s_webModules \o dependencyImportMap[spec], ev |-> << >>]
  ELSE [out |-> spec \o s_dotJs, ev |-> << MissingWebModule(spec) >>]

\* lines 202-223: the resolver of a build worker
resolveBuildIn(mapping, spec) ==
  IF startsWith(spec, s_http) \/ startsWith(spec, s_slash)
    THEN [out |-> spec, ev |-> << >>]
  ELSE IF startsWith(spec, s_dotSlash) \/ startsWith(spec, s_dotDotSlash)
    THEN resolveRelativeIn(mapping, spec)
  ELSE IF spec \in DOMAIN dependencyImportMap /\ dependencyImportMap[spec] # << >>
    THEN [out |-> s_webModules \o dependencyImportMap[spec], ev |-> << >>]
  ELSE [out |-> s_webModules \o spec \o s_dotJs, ev |-> << MissingWebModule(spec) >>]

resolveBuild(spec) == resolveBuildIn(srcFileExtensionMapping, spec)

\* lines 247-264: the resolver of a plugin worker
resolvePluginIn(mapping, spec) ==
  IF startsWith(spec, s_http) \/ startsWith(spec, s_slash)
    THEN [out |-> spec, ev |-> << >>]
  ELSE IF startsWith(spec, s_dotSlash) \/ startsWith(spec, s_dotDotSlash)
    THEN resolveRelativeIn(mapping, spec)
  ELSE [out |-> s_webModules \o spec \o s_dotJs, ev |-> << >>]

resolvePlugin(spec) == resolvePluginIn(srcFileExtensionMapping, spec)

resolve(id, spec) ==
  IF startsWith(id, s_buildC) THEN resolveBuild(spec) ELSE resolvePlugin(spec)

\* ../rewrite-imports: every import specifier of the code is replaced by what
\* the resolver returns for it, in order
RECURSIVE transformEsmImports(_, _, _)
transformEsmImports(id, code, k) ==
  IF k > Len(code) THEN [out |-> << >>, ev |-> << >>]
  ELSE LET r == resolve(id, code[k])
           rest == transformEsmImports(id, code, k + 1)
       IN [out |-> << r.out >> \o rest.out, ev |-> r.ev \o rest.ev]

\* lines 194-199 and 239-244, with the include root taken off the path
outPathOf(f) ==
  LET extToFind == extOf(f)
      outPath == config_dist \o s_slash \o f
  IN IF extToFind \in DOMAIN srcFileExtensionMapping
       THEN replaceExt(outPath, extToFind, srcFileExtensionMapping[extToFind])
       ELSE outPath

\* lines 200-226 and 245-267: the file written for code, and the events of
\* the import rewriting
emitCode(id, f, code) ==
  LET outPath == outPathOf(f)
      t == IF extOf(outPath) = <<"j","s">>
             THEN transformEsmImports(id, code, 1)
             ELSE [out |-> code, ev |-> << >>]
  IN [entry |-> Entry(outPath, "code", id, t.out), ev |-> t.ev]

\* line 176
dispatchMatch(id, f) ==
  LET fileExtension == extOf(f)
  IN includes(id, <<":">> \o fileExtension) \/ includes(id, <<",">> \o fileExtension)

(***************************************************************************)
(* The mount command, lines 138-154.                                        *)
(***************************************************************************)
\* yargs(cmdArr).to
yargsTo(cmdArr) ==
  LET hits == {i \in DOMAIN cmdArr : cmdArr[i] = s_to}
      i == CHOOSE j \in hits : \A k \in hits : j <= k
  IN IF hits = {} \/ i = Len(cmdArr) THEN [str |-> FALSE, v |-> << >>]
     ELSE [str |-> TRUE, v |-> cmdArr[i + 1]]

\* malformed: line 140 throws; throws: path.resolve or path.join is given a
\* value that is no string; dest: destinationFile below buildDirectoryLoc
mountPlan(cmd) ==
  LET cmdArr0 == splitWS(cmd)
      cmdArr == Tail(cmdArr0)
      to == yargsTo(cmdArr)
      dirUrl == IF Len(cmdArr) = 1 THEN s_slash \o cmdArr[1] ELSE to.v
      isStr == Len(cmdArr) = 1 \/ to.str
  IN IF cmdArr0[1] # s_mount
       THEN [malformed |-> TRUE, throws |-> FALSE, dirDisk |-> << >>, dest |-> << >>]
     ELSE IF Len(cmdArr) = 0 \/ ~isStr
       THEN [malformed |-> FALSE, throws |-> TRUE, dirDisk |-> << >>, dest |-> << >>]
     ELSE [malformed |-> FALSE, throws |-> FALSE, dirDisk |-> cmdArr[1],
           dest |-> IF dirUrl = s_slash THEN << >>
                    ELSE IF startsWith(dirUrl, s_slash) THEN dirUrl
                    ELSE s_slash \o dirUrl]

(***************************************************************************)
(* The control flow of command() between two awaits.  Each operator gives  *)
(* the next await (or the end) reached and the events emitted on the way:  *)
(* [pc, at, ev].  L is the state of the lint workers.                       *)
(***************************************************************************)
NoAt == [w |-> 0, f |-> 0]

Flow(p, w, f, ev) == [pc |-> p, at |-> [w |-> w, f |-> f], ev |-> ev, err |-> "none"]

\* command() throws at worker w and file f: the promise it returned is rejected
Abort(w, f, ev, err) == [pc |-> "aborted", at |-> [w |-> w, f |-> f], ev |-> ev, err |-> err]

\* joinStep with a join that does not wait for the lint workers still running
joinStep_noWait(L, ev) ==
  IF \E i \in DOMAIN L : L[i] = "failed" THEN Abort(0, 0, ev, "lint")
  ELSE IF isBundled
    THEN Flow("bundle_copy", 0, 0, Append(ev, WorkerUpdate(s_bundleId, "RUNNING")))
  ELSE Flow("done", 0, 0, ev)

\* lines 274-277: Promise.all(allWorkerPromises) and what follows it
joinStep(L, ev) ==
  IF \E i \in DOMAIN L : L[i] = "failed" THEN Abort(0, 0, ev, "lint")
  ELSE IF \E i \in DOMAIN L : L[i] = "running" THEN Flow("join", 0, 0, ev)
  ELSE IF isBundled
    THEN Flow("bundle_copy", 0, 0, Append(ev, WorkerUpdate(s_bundleId, "RUNNING")))
  ELSE Flow("done", 0, 0, ev)

\* lines 169-271: enterWorker is the head of the loop over relevantWorkers,
\* nextFile the head of the loop over allFiles
RECURSIVE enterWorker(_, _, _), nextFile(_, _, _, _)
enterWorker(w, L, ev) ==
  IF w > Len(relevantWorkers) THEN joinStep(L, ev)
  ELSE IF ~isTransformId(relevantWorkers[w].id) THEN enterWorker(w + 1, L, ev)
  ELSE nextFile(w, 1, L, Append(ev, WorkerUpdate(relevantWorkers[w].id, "RUNNING")))

nextFile(w, f, L, ev) ==
  LET id == relevantWorkers[w].id
  IN IF f > Len(srcFiles)
       THEN enterWorker(w + 1, L, Append(ev, WorkerComplete(id, "null")))
     ELSE IF ~dispatchMatch(id, srcFiles[f]) THEN nextFile(w, f + 1, L, ev)
     ELSE Flow(IF startsWith(id, s_buildC) THEN "exec" ELSE "plugin", w, f, ev)

\* line 163
dispatch(L, ev) == IF include THEN enterWorker(1, L, ev) ELSE joinStep(L, ev)

\* lines 134-161: the head of the loop over the mount workers
RECURSIVE mountFrom(_, _, _)
mountFrom(w, L, ev) ==
  IF w > Len(relevantWorkers) THEN dispatch(L, ev)
  ELSE IF ~startsWith(relevantWorkers[w].id, s_mountC) THEN mountFrom(w + 1, L, ev)
  ELSE LET plan == mountPlan(relevantWorkers[w].cmd)
       IN IF plan.malformed THEN Abort(w, 0, ev, "mount command")
          ELSE IF plan.throws THEN Abort(w, 0, ev, "mount path")
          ELSE Flow("copy", w, 0, ev)

lintIds ==
  LET rw == relevantWorkers IN {i \in DOMAIN rw : startsWith(rw[i].id, s_lintallC)}

Awaiting ==
  {"copy", "exec", "plugin", "join", "bundle_copy", "bundle_read",
   "bundle_writeManifest", "bundle_writeBabelrc", "bundle_parcel"}

Ended == {"returned", "done", "aborted", "crashed"}

goto(flow) ==
  /\ pc' = flow.pc
  /\ at' = flow.at
  /\ events' = flow.ev
  /\ thrown' = flow.err

staleEntry == Entry(<<"/","o","l","d">>, "stale", << >>, << >>)

\* the configurations with the declarations of DeclPool at the indices in S
RECURSIVE ScriptsOf(_, _)
ScriptsOf(S, i) ==
  IF i > Len(DeclPool) THEN {<< >>}
  ELSE IF i \notin S THEN ScriptsOf(S, i + 1)
  ELSE {<< [id |-> DeclPool[i].id, cmd |-> c] >> \o rest :
          c \in DeclPool[i].cmds, rest \in ScriptsOf(S, i + 1)}

Init ==
  /\ \E S \in SUBSET DOMAIN DeclPool :
       /\ Cardinality(S) <= MaxWorkers
       /\ scripts \in ScriptsOf(S, 1)
  /\ isBundled \in BOOLEAN
  /\ include \in BOOLEAN
  /\ \E F \in SUBSET DOMAIN FilePool :
       /\ Cardinality(F) <= MaxFiles
       /\ ~include => F = {}
       /\ srcFiles = SubSeqAt(FilePool, F, 1)
  /\ pc = "start"
  /\ at = NoAt
  /\ lint = << >>
  /\ unhandled = "unknown"
  /\ events = << >>
  /\ lintEvents = << >>
  /\ disk = [d \in Dirs |-> {staleEntry}]
  /\ writes = << >>
  /\ thrown = "none"
  /\ tempBuildManifest = [name |-> FALSE, babel |-> << >>]
  /\ specifier = << >>
  /\ extMapping = srcFileExtensionMapping
  /\ resolver = "none"
  /\ resolved = << >>

(***************************************************************************)
(* Lines 24-132 and on to the first await: the check for build scripts,    *)
(* the output directories emptied, every lint worker started.               *)
(***************************************************************************)
Start ==
  /\ pc = "start"
  /\ IF noBuildScripts
       THEN /\ pc' = "returned"
            /\ UNCHANGED << at, lint, events, lintEvents, disk, thrown >>
       ELSE /\ disk' = [d \in (DOMAIN disk) \cup {finalDirectoryLoc, buildDirectoryLoc} |->
                          IF d \in {finalDirectoryLoc, buildDirectoryLoc} THEN {} ELSE disk[d]]
            /\ lint' = [i \in lintIds |-> "running"]
            /\ lintEvents' = [i \in lintIds |->
                                << WorkerUpdate(relevantWorkers[i].id, "RUNNING") >>]
            /\ goto(mountFrom(1, lint', events))
  /\ UNCHANGED << config, unhandled, writes, tempBuildManifest >>

\* lines 105-107: a lint process exits with code 0
LintSucceed(i) ==
  /\ pc \in Awaiting
  /\ lint[i] = "running"
  /\ lint' = [lint EXCEPT ![i] = "ok"]
  /\ lintEvents' = [lintEvents EXCEPT ![i] = Append(@, WorkerComplete(relevantWorkers[i].id, "null"))]
  /\ IF pc = "join" THEN goto(joinStep(lint', events))
     ELSE UNCHANGED << pc, at, events, thrown >>
  /\ UNCHANGED << config, unhandled, disk, writes, tempBuildManifest >>

\* The handlers of the output of a lint process (lines 108-131) only emit
\* events of that worker and are left out.
\* lines 101-107: a lint process fails.  The promise of then() at line 105 is
\* rejected with no handler: the runtime warns, or ends the process.
LintFail(i) ==
  /\ pc \in Awaiting
  /\ lint[i] = "running"
  /\ lint' = [lint EXCEPT ![i] = "failed"]
  /\ lintEvents' = [lintEvents EXCEPT ![i] =
                      @ \o << WorkerMsg(relevantWorkers[i].id, "error"),
                              WorkerComplete(relevantWorkers[i].id, "error") >>]
  /\ \E mode \in {"warn", "throw"} :
       /\ unhandled \in {"unknown", mode}
       /\ unhandled' = mode
       /\ IF pc = "join" THEN goto(joinStep(lint', events))
          ELSE /\ pc' = IF mode = "throw" THEN "crashed" ELSE pc
               /\ thrown' = IF mode = "throw" THEN "unhandled rejection" ELSE thrown
               /\ UNCHANGED << at, events >>
  /\ UNCHANGED << config, disk, writes, tempBuildManifest >>

\* CopyDone with a catch at line 156 that does not throw the error again
CopyDone_noRethrow ==
  /\ pc = "copy"
  /\ LET w == relevantWorkers[at.w]
         plan == mountPlan(w.cmd)
     IN \/ /\ disk' = [disk EXCEPT ![buildDirectoryLoc] =
                         writeTo(@, Entry(plan.dest, "tree", w.id, << plan.dirDisk >>))]
           /\ goto(mountFrom(at.w + 1, lint, Append(events, WorkerComplete(w.id, "null"))))
        \/ /\ goto(mountFrom(at.w + 1, lint,
                             events \o << WorkerMsg(w.id, "error"), WorkerComplete(w.id, "error"),
                                          WorkerComplete(w.id, "null") >>))
           /\ UNCHANGED disk
  /\ UNCHANGED << config, lint, unhandled, lintEvents, writes, tempBuildManifest >>

\* lines 155-160: the copy of a mount worker ends
CopyDone ==
  /\ pc = "copy"
  /\ LET w == relevantWorkers[at.w]
         plan == mountPlan(w.cmd)
     IN \/ /\ disk' = [disk EXCEPT ![buildDirectoryLoc] =
                         writeTo(@, Entry(plan.dest, "tree", w.id, << plan.dirDisk >>))]
           /\ goto(mountFrom(at.w + 1, lint, Append(events, WorkerComplete(w.id, "null"))))
        \/ /\ goto(Abort(at.w, 0,
                         events \o << WorkerMsg(w.id, "error"), WorkerComplete(w.id, "error") >>,
                         "copy"))
           /\ UNCHANGED disk
  /\ UNCHANGED << config, lint, unhandled, lintEvents, writes, tempBuildManifest >>

\* lines 182-227: the command of a build worker ends for one file
ExecDone ==
  /\ pc = "exec"
  /\ LET id == relevantWorkers[at.w].id
         f == srcFiles[at.f]
     IN \/ \* a non-zero exit code: execa rejects, nothing catches it
           /\ goto(Abort(at.w, at.f, events, "execa"))
           /\ UNCHANGED << disk, writes >>
        \/ \E stdout \in BOOLEAN :
             LET ev1 == IF StderrOf(f) THEN Append(events, Console("error")) ELSE events
                 c == emitCode(id, f, ImportsOf(f))
             IN IF stdout
                  THEN /\ disk' = [disk EXCEPT ![buildDirectoryLoc] = writeTo(@, c.entry)]
                       /\ writes' = Append(writes, [id |-> id, f |-> f, entry |-> c.entry])
                       /\ goto(nextFile(at.w, at.f + 1, lint, ev1 \o c.ev))
                  ELSE /\ UNCHANGED << disk, writes >>
                       /\ goto(nextFile(at.w, at.f + 1, lint, ev1))
  /\ UNCHANGED << config, lint, unhandled, lintEvents, tempBuildManifest >>

\* PluginDone with a build() whose error is not caught at line 234
PluginDone_noCatch ==
  /\ pc = "plugin"
  /\ LET id == relevantWorkers[at.w].id
         f == srcFiles[at.f]
         c == emitCode(id, f, ImportsOf(f))
     IN \/ /\ goto(Abort(at.w, at.f,
                         events \o << Console("error"), WorkerComplete(id, "error") >>,
                         "plugin"))
           /\ UNCHANGED << disk, writes >>
        \/ /\ disk' = [disk EXCEPT ![buildDirectoryLoc] = writeTo(@, c.entry)]
           /\ writes' = Append(writes, [id |-> id, f |-> f, entry |-> c.entry])
           /\ goto(nextFile(at.w, at.f + 1, lint, events \o c.ev))
  /\ UNCHANGED << config, lint, unhandled, lintEvents, tempBuildManifest >>

\* lines 229-268: the build() of a plugin worker ends for one file
PluginDone ==
  /\ pc = "plugin"
  /\ LET id == relevantWorkers[at.w].id
         f == srcFiles[at.f]
         c == emitCode(id, f, ImportsOf(f))
     IN \/ /\ goto(nextFile(at.w, at.f + 1, lint,
                            events \o << Console("error"), WorkerComplete(id, "error") >>))
           /\ UNCHANGED << disk, writes >>
        \/ /\ disk' = [disk EXCEPT ![buildDirectoryLoc] = writeTo(@, c.entry)]
           /\ writes' = Append(writes, [id |-> id, f |-> f, entry |-> c.entry])
           /\ goto(nextFile(at.w, at.f + 1, lint, events \o c.ev))
  /\ UNCHANGED << config, lint, unhandled, lintEvents, tempBuildManifest >>

(***************************************************************************)
(* The Bundle Stage, lines 276-338.                                         *)
(***************************************************************************)
\* copyFilter without the test for the dependency directory
copyFilter_keepsWebModules(e) ==
  ~startsWith(e.path, s_slash \o Drop(config_dist, 1))

\* lines 282-287: what the copy of the build directory leaves out
copyFilter(e) ==
  /\ ~startsWith(e.path, s_webModulesDir)
  /\ ~startsWith(e.path, s_slash \o Drop(config_dist, 1))

\* dir with the entries of new written over it
copyInto(dir, new) == {x \in dir : \A e \in new : e.path # x.path} \cup new

\* lines 281-292: the copy of the build directory into the final directory ends
BundleCopyDone ==
  /\ pc = "bundle_copy"
  /\ \/ /\ disk' = [disk EXCEPT ![finalDirectoryLoc] =
                      copyInto(@, {e \in disk[buildDirectoryLoc] : copyFilter(e)})]
        /\ pc' = "bundle_read"
        /\ UNCHANGED << events, thrown >>
     \/ /\ pc' = "aborted"
        /\ thrown' = "bundle copy"
        /\ events' = events \o << WorkerMsg(s_bundleId, "error"),
                                  WorkerComplete(s_bundleId, "error") >>
        /\ UNCHANGED disk
  /\ UNCHANGED << config, at, lint, unhandled, lintEvents, writes, tempBuildManifest >>

\* lines 293-299: package.json is read and parsed
BundleReadManifest ==
  /\ pc = "bundle_read"
  /\ \/ \E m \in Manifests :
          /\ tempBuildManifest' =
               [name |-> FALSE,
                babel |-> IF m.babel # << >> THEN m.babel ELSE s_babelDefault]
          /\ pc' = "bundle_writeManifest"
          /\ UNCHANGED thrown
     \/ /\ pc' = "aborted"
        /\ thrown' = "manifest read"
        /\ UNCHANGED tempBuildManifest
  /\ UNCHANGED << config, at, lint, unhandled, events, lintEvents, disk, writes >>

\* lines 300-303: the manifest is written
BundleWriteManifest ==
  /\ pc = "bundle_writeManifest"
  /\ \/ /\ disk' = [disk EXCEPT ![buildDirectoryLoc] =
                      writeTo(@, [Entry(s_packageJson, "manifest", s_bundleId, << >>)
                                    EXCEPT !.name = tempBuildManifest.name,
                                           !.babel = tempBuildManifest.babel])]
        /\ pc' = "bundle_writeBabelrc"
        /\ UNCHANGED thrown
     \/ /\ pc' = "aborted"
        /\ thrown' = "manifest write"
        /\ UNCHANGED disk
  /\ UNCHANGED << config, at, lint, unhandled, events, lintEvents, writes, tempBuildManifest >>

\* lines 304-319: .babelrc is written and the bundler started
BundleWriteBabelrc ==
  /\ pc = "bundle_writeBabelrc"
  /\ \/ /\ disk' = [disk EXCEPT ![buildDirectoryLoc] =
                      writeTo(@, Entry(s_babelrc, "babelrc", s_bundleId, << >>))]
        /\ pc' = "bundle_parcel"
        /\ UNCHANGED thrown
     \/ /\ pc' = "aborted"
        /\ thrown' = "babelrc write"
        /\ UNCHANGED disk
  /\ UNCHANGED << config, at, lint, unhandled, events, lintEvents, writes, tempBuildManifest >>

\* lines 326-337: the bundler ends
ParcelDone ==
  /\ pc = "bundle_parcel"
  /\ \/ /\ events' = Append(events, WorkerComplete(s_bundleId, "null"))
        /\ disk' = [d \in (IF finalDirectoryLoc # buildDirectoryLoc
                               THEN (DOMAIN disk) \ {buildDirectoryLoc}
                               ELSE DOMAIN disk) |->
                      IF d = finalDirectoryLoc
                        THEN writeTo(disk[d], Entry(s_bundleOut, "bundle", s_bundleId, << >>))
                        ELSE disk[d]]
        /\ pc' = "done"
        /\ UNCHANGED thrown
     \/ /\ events' = events \o << WorkerMsg(s_bundleId, "error"),
                                  WorkerComplete(s_bundleId, "error") >>
        /\ pc' = "aborted"
        /\ thrown' = "bundler"
        /\ UNCHANGED disk
  /\ UNCHANGED << config, at, lint, unhandled, lintEvents, writes, tempBuildManifest >>

Next ==
  \/ Start
  \/ \E i \in DOMAIN lint : LintSucceed(i)
  \/ \E i \in DOMAIN lint : LintFail(i)
  \/ CopyDone
  \/ ExecDone
  \/ PluginDone
  \/ BundleCopyDone
  \/ BundleReadManifest
  \/ BundleWriteManifest
  \/ BundleWriteBabelrc
  \/ ParcelDone

Spec == Init /\ [][Next]_vars

(***************************************************************************)
(* The resolvers alone (lines 202-223 and 247-264): a resolver is given a  *)
(* specifier and then its own output, with a table of source extensions.   *)
(***************************************************************************)
SpecifierPool ==
  {sp_react, sp_lodash, sp_relTs, sp_relNone, sp_url, sp_root, sp_upJsx, sp_relCss,
   sp_relDotDir, sp_ftp, sp_httpx}

\* a table in which an output extension is again a source extension
mapping_chained ==
  [e \in {<<"t","s">>, <<"j","s","x">>} |->
     IF e = <<"t","s">> THEN <<"j","s","x">> ELSE <<"j","s">>]

mapping_jsx == [e \in {<<"j","s","x">>} |-> <<"j","s">>]

MappingPool == {srcFileExtensionMapping, mapping_chained, mapping_jsx}

ResolverInit ==
  /\ specifier \in SpecifierPool
  /\ extMapping \in MappingPool
  /\ resolver \in {"build", "plugin"}
  /\ resolved = << >>
  /\ scripts = << >>
  /\ isBundled = FALSE
  /\ include = FALSE
  /\ srcFiles = << >>
  /\ pc = "resolver"
  /\ at = NoAt
  /\ lint = << >>
  /\ unhandled = "unknown"
  /\ events = << >>
  /\ lintEvents = << >>
  /\ disk = [d \in Dirs |-> {staleEntry}]
  /\ writes = << >>
  /\ thrown = "none"
  /\ tempBuildManifest = [name |-> FALSE, babel |-> << >>]

\* the callback given to transformEsmImports is called with a specifier
Apply ==
  /\ pc = "resolver"
  /\ Len(resolved) < MaxApply
  /\ LET s == IF resolved = << >> THEN specifier ELSE resolved[Len(resolved)].out
     IN resolved' = Append(resolved,
                           IF resolver = "build" THEN resolveBuildIn(extMapping, s)
                           ELSE resolvePluginIn(extMapping, s))
  /\ UNCHANGED << scripts, isBundled, include, srcFiles, specifier, extMapping, resolver, run >>

ResolverNext == Apply

ResolverSpec == ResolverInit /\ [][ResolverNext]_vars

(***************************************************************************)
(* Properties.                                                              *)
(***************************************************************************)
Emitted(e) == \E k \in DOMAIN events : events[k] = e

Before(e1, e2) ==
  \E i, j \in DOMAIN events : i < j /\ events[i] = e1 /\ events[j] = e2

bundleRunning == WorkerUpdate(s_bundleId, "RUNNING")

BundleStarted == Emitted(bundleRunning)

BundlePcs ==
  {"bundle_copy", "bundle_read", "bundle_writeManifest", "bundle_writeBabelrc",
   "bundle_parcel"}

BundleFailures ==
  {"bundle copy", "manifest read", "manifest write", "babelrc write", "bundler"}

mountIds ==
  LET rw == relevantWorkers IN {i \in DOMAIN rw : startsWith(rw[i].id, s_mountC)}

transformIds ==
  LET rw == relevantWorkers IN {i \in DOMAIN rw : isTransformId(rw[i].id)}

isScript(path) == extOf(path) = <<"j","s">>

\* a specifier that begins with a URL scheme
hasUrlScheme(s) ==
  \E i \in 2..Len(s) : s[i] = ":" /\ \A j \in 1..(i - 1) : s[j] \notin {"/", ".", ":"}

isBare(s) ==
  /\ ~hasUrlScheme(s)
  /\ ~startsWith(s, s_slash)
  /\ ~startsWith(s, s_dotSlash)
  /\ ~startsWith(s, s_dotDotSlash)

inExtensionIndex(w, ext) ==
  ext \in DOMAIN extToWorkerMap /\ w \in Range(extToWorkerMap[ext])

\* C1: when the command of a build worker fails on a file (a non-zero exit
\* code), the run is not aborted: command() does not throw on it, so that the
\* remaining files, the later workers, the join and the Bundle Stage follow.
C1_BuildFailureIsolated ==
  ~(/\ pc = "aborted"
    /\ thrown = "execa"
    /\ inExtensionIndex(relevantWorkers[at.w], extOf(srcFiles[at.f])))

\* C2: the run does not go past the join, neither into the Bundle Stage or to
\* its end nor out with the error of a failed lint worker, while a lint
\* worker is still running.
C2_JoinWaitsForAllLint ==
  (pc \in BundlePcs \cup {"done"} \/ (pc = "aborted" /\ thrown = "lint"))
    => \A i \in DOMAIN lint : lint[i] # "running"

\* C3: the failure of a lint worker does not abort the run: command() never
\* throws the error of a lint worker, and with bundling enabled the Bundle
\* Stage has started once the run has ended with every lint worker settled,
\* no mount failure and no failed command.
C3_LintFailureNotFatal ==
  /\ ~(pc = "aborted" /\ thrown = "lint")
  /\ (/\ pc \in Ended \ {"returned"}
      /\ isBundled
      /\ thrown \notin {"mount command", "mount path", "copy", "execa", "unhandled rejection"}
      /\ \A i \in DOMAIN lint : lint[i] # "running")
       => BundleStarted

\* C4: the Bundle Stage starts only if bundling is enabled, after every mount
\* worker has completed its copy, after the last file of the last build or
\* plugin worker has been processed, and with every lint worker settled.
C4_BundleStartsAfterAll ==
  BundleStarted =>
    /\ isBundled
    /\ pc \in BundlePcs \cup {"done", "aborted"}
    /\ \A i \in lintIds : i \in DOMAIN lint /\ lint[i] # "running"
    /\ \A i \in mountIds : Before(WorkerComplete(relevantWorkers[i].id, "null"), bundleRunning)
    /\ include =>
         \A i \in transformIds :
           Before(WorkerComplete(relevantWorkers[i].id, "null"), bundleRunning)

C4_Witness ==
  /\ pc = "bundle_copy"
  /\ lintIds # {}
  /\ mountIds # {}
  /\ writes # << >>

\* C5: when the command of any mount worker is malformed, nothing is written
\* to the output directories (no mount copy, no transform output) and the
\* Bundle Stage does not start.
C5_MalformedMountWritesNothing ==
  (\E i \in mountIds : mountPlan(relevantWorkers[i].cmd).malformed)
    => /\ \A d \in DOMAIN disk : \A e \in disk[d] : e.kind = "stale"
       /\ writes = << >>
       /\ ~BundleStarted

\* C6: in every script file written by a build or plugin worker, a bare
\* specifier s of the import map is rewritten to /web_modules/ + map[s] and a
\* bare specifier that is not in the map to /web_modules/ + s + .js, with one
\* MissingWebModule(s) event for each such occurrence.
C6_BareSpecifiers ==
  /\ \A k \in DOMAIN writes :
       LET w == writes[k]
           src == ImportsOf(w.f)
       IN isScript(w.entry.path) =>
            \A n \in DOMAIN src :
              isBare(src[n]) =>
                w.entry.body[n] =
                  IF src[n] \in DOMAIN dependencyImportMap
                    THEN s_webModules \o dependencyImportMap[src[n]]
                    ELSE s_webModules \o src[n] \o s_dotJs
  /\ \A s \in UNION {Range(ImportsOf(f)) : f \in Range(FilePool)} :
       (isBare(s) /\ s \notin DOMAIN dependencyImportMap) =>
         Cardinality({k \in DOMAIN events : events[k] = MissingWebModule(s)})
           = Cardinality(UNION {{<< k, n >> : n \in {m \in DOMAIN ImportsOf(writes[k].f) :
                                                        ImportsOf(writes[k].f)[m] = s}} :
                                  k \in {j \in DOMAIN writes : isScript(writes[j].entry.path)}})

\* C7: a build or plugin worker is applied to a file if and only if it is in
\* extToWorkerMap under the extension of the file.
C7_DispatchIsExtensionIndex ==
  /\ pc \in {"exec", "plugin"}
       => inExtensionIndex(relevantWorkers[at.w], extOf(srcFiles[at.f]))
  /\ \A i \in transformIds : \A k \in DOMAIN srcFiles :
       inExtensionIndex(relevantWorkers[i], extOf(srcFiles[k]))
         => dispatchMatch(relevantWorkers[i].id, srcFiles[k])

\* C8: the run ends early (no lint worker started, nothing mounted, transformed
\* or bundled, no error) if and only if no declaration id has the prefix build:
C8_EarlyReturnIffNoBuildWorker ==
  pc # "start" =>
    (pc = "returned" <=> \A i \in DOMAIN scripts : ~startsWith(scripts[i].id, s_buildC))

noTransformErrors ==
  \A k \in DOMAIN events :
    events[k].type = "WORKER_COMPLETE" => events[k].arg = "null"

isFinalManifest(e) == e.kind = "manifest" /\ ~e.name /\ e.babel # << >>

\* C9, as the specification states it: after a successful bundled run with no
\* build or plugin error the final directory holds no copy of web_modules and
\* holds a manifest without name and with the @babel/core devDependency.
C9_ManifestInFinalDirectory ==
  (pc = "done" /\ isBundled /\ noTransformErrors) =>
    /\ \A e \in disk[finalDirectoryLoc] : ~startsWith(e.path, s_webModulesDir)
    /\ \E e \in disk[finalDirectoryLoc] : isFinalManifest(e)

\* C9, amended: after a successful bundled run the final directory holds no
\* copy of web_modules; the manifest without name and with the @babel/core
\* devDependency is written into the intermediate build directory, where the
\* bundler runs, not into the final directory, and the intermediate directory
\* is removed at the end of the run.
C9_ManifestInBuildDirectory ==
  /\ pc = "bundle_parcel" =>
       \E e \in disk[buildDirectoryLoc] : e.path = s_packageJson /\ isFinalManifest(e)
  /\ (pc = "done" /\ isBundled) =>
       /\ \A e \in disk[finalDirectoryLoc] :
            ~startsWith(e.path, s_webModulesDir) /\ e.kind # "manifest"
       /\ buildDirectoryLoc \notin DOMAIN disk

C9_Witness ==
  /\ pc = "done"
  /\ isBundled
  /\ noTransformErrors
  /\ Emitted(WorkerComplete(id_web, "null"))
  /\ \E i \in DOMAIN scripts : scripts[i] = [id |-> id_web, cmd |-> cmd_mountWeb]

\* C10: when a step of the Bundle Stage fails (the copy, reading or writing
\* the manifest, writing .babelrc, the bundler), a WorkerComplete with an
\* error has been emitted for the bundle marker, and the run is aborted with
\* the intermediate directory left in place.
C10_BundleFailureReported ==
  thrown \in BundleFailures =>
    /\ pc = "aborted"
    /\ Emitted(WorkerComplete(s_bundleId, "error"))
    /\ buildDirectoryLoc \in DOMAIN disk

\* the events of worker id on messageBus, in order
eventsOf(id) == SelectSeq(events, LAMBDA e : e.type # "CONSOLE" /\ e.type # "MISSING_WEB_MODULE" /\ e.id = id)

\* C11: when the copy of a mount worker fails, an error WorkerMsg and a
\* WorkerComplete with an error are emitted for that worker and no
\* WorkerComplete without error; the run is aborted, and no later mount
\* worker, no build or plugin worker and no Bundle Stage is started.
C11_MountCopyFailureAborts ==
  \A i \in mountIds :
    Emitted(WorkerComplete(relevantWorkers[i].id, "error")) =>
      /\ pc = "aborted"
      /\ thrown = "copy"
      /\ at.w = i
      /\ eventsOf(relevantWorkers[i].id) =
           << WorkerMsg(relevantWorkers[i].id, "error"),
              WorkerComplete(relevantWorkers[i].id, "error") >>
      /\ \A j \in mountIds : j > i =>
           /\ eventsOf(relevantWorkers[j].id) = << >>
           /\ \A e \in disk[buildDirectoryLoc] : e.by # relevantWorkers[j].id
      /\ \A j \in transformIds : eventsOf(relevantWorkers[j].id) = << >>
      /\ writes = << >>
      /\ ~BundleStarted

C11_Witness ==
  /\ thrown = "copy"
  /\ \E j \in mountIds : j > at.w
  /\ transformIds # {}
  /\ isBundled
  /\ srcFiles # << >>

\* the step in which build() of the plugin worker at.w throws on file at.f
PluginThrew ==
  /\ pc = "plugin"
  /\ Len(events') >= Len(events) + 2
  /\ SubSeq(events', Len(events) + 1, Len(events) + 2) =
       << Console("error"), WorkerComplete(relevantWorkers[at.w].id, "error") >>

\* C12: when build() of a plugin worker throws on a file, no file is written
\* for that file by that worker, the failure is reported (a console error and
\* a WorkerComplete with the error), and the run goes on at the place it goes
\* on after a file that was transformed: the next matching file of the
\* worker, or the later workers and what follows them.
C12_PluginFailureIsolated ==
  [][PluginThrew =>
       LET after == nextFile(at.w, at.f + 1, lint, << >>)
       IN /\ disk' = disk
          /\ writes' = writes
          /\ pc' = after.pc
          /\ at' = after.at
          /\ thrown' = after.err
          /\ events' = events \o << Console("error"),
                                    WorkerComplete(relevantWorkers[at.w].id, "error") >>
                              \o after.ev]_vars

C12_Witness ==
  /\ pc = "done"
  /\ Emitted(WorkerComplete(id_svelte, "error"))
  /\ \E k \in DOMAIN srcFiles : srcFiles[k] = f_a
  /\ ~\E k \in DOMAIN writes : writes[k].id = id_svelte /\ writes[k].f = f_a
  /\ \E k \in DOMAIN writes : writes[k].id = id_svelte /\ writes[k].f = f_b
  /\ \E k \in DOMAIN writes : writes[k].id = id_tsx

hasWorkerPrefix(id) ==
  \E p \in {s_buildC, s_pluginC, s_lintallC, s_mountC} : startsWith(id, p)

hasTransformPrefix(id) == \E p \in {s_buildC, s_pluginC} : startsWith(id, p)

\* C13: a declaration is in relevantWorkers if and only if its id begins
\* with build:, plugin:, lintall: or mount: (relevantWorkers holds these, each
\* once, and then the bundle marker when bundling is enabled); it is in extToWorkerMap if and only if its id begins with build:
\* or plugin:; a declaration with none of the four prefixes is in neither and
\* has no event, no mounted tree and no written file.
C13_WorkerClassification ==
  LET rw == relevantWorkers
      index == extToWorkerMap
      declared == {k \in DOMAIN rw : rw[k].id # s_bundleId}
      indexed == UNION {Range(index[e]) : e \in DOMAIN index}
  IN /\ \A i \in DOMAIN scripts :
          /\ (\E k \in declared : rw[k] = scripts[i])
               <=> hasWorkerPrefix(scripts[i].id)
          /\ scripts[i] \in indexed <=> hasTransformPrefix(scripts[i].id)
          /\ ~hasWorkerPrefix(scripts[i].id) =>
               /\ eventsOf(scripts[i].id) = << >>
               /\ \A k \in DOMAIN lintEvents : \A n \in DOMAIN lintEvents[k] :
                    lintEvents[k][n].id # scripts[i].id
               /\ \A d \in DOMAIN disk : \A e \in disk[d] : e.by # scripts[i].id
               /\ \A k \in DOMAIN writes : writes[k].id # scripts[i].id
     /\ \A k \in declared : \E i \in DOMAIN scripts : rw[k] = scripts[i]
     /\ Cardinality(declared) =
          Cardinality({i \in DOMAIN scripts : hasWorkerPrefix(scripts[i].id)})
     /\ Len(rw) = Cardinality(declared) + (IF isBundled THEN 1 ELSE 0)
     /\ isBundled => rw[Len(rw)].id = s_bundleId

C13_Witness ==
  /\ pc = "done"
  /\ isBundled
  /\ \E i \in DOMAIN scripts : scripts[i].id = id_buildx
  /\ mountIds # {}
  /\ writes # << >>

\* the destination of a mount command below the build root, as the
\* specification gives it: the value of --to, else / + the source directory
Filling(tokens) == SelectSeq(tokens, LAMBDA x : x # << >>)

urlPathOf(cmd) ==
  LET tokens == Filling(splitWS(cmd))
      opts == {k \in DOMAIN tokens : tokens[k] = s_to /\ k < Len(tokens)}
  IN IF opts # {} THEN tokens[(CHOOSE k \in opts : \A j \in opts : k <= j) + 1]
     ELSE s_slash \o tokens[2]

\* C14: for every mount command whose first token is mount, with or without
\* --to and with any further tokens or white space, the directory is copied
\* to the build root joined with the URL path (the value of --to, else / +
\* the source directory), and to the build root itself when that is /.
C14_MountDestination ==
  \A i \in mountIds :
    LET w == relevantWorkers[i]
    IN splitWS(w.cmd)[1] = s_mount =>
         /\ ~(pc = "aborted" /\ thrown = "mount path" /\ at.w = i)
         /\ (Emitted(WorkerComplete(w.id, "null")) /\ buildDirectoryLoc \in DOMAIN disk) =>
              \E e \in disk[buildDirectoryLoc] :
                /\ e.kind = "tree"
                /\ e.by = w.id
                /\ e.path = IF urlPathOf(w.cmd) = s_slash THEN << >> ELSE urlPathOf(w.cmd)

\* C15, as the specification states it: with every table of source
\* extensions, a resolver applied to its own output returns it unchanged.
C15_ResolveIdempotent ==
  \A k \in 2..Len(resolved) : resolved[k].out = resolved[1].out

\* no output extension of the table is a source extension that is mapped on
unchained(mapping) ==
  \A e \in DOMAIN mapping :
    mapping[e] \in DOMAIN mapping => mapping[mapping[e]] = mapping[e]

\* C15, amended: a resolver (of a build or of a plugin worker) applied to its
\* own output returns it unchanged, for every specifier, when no output
\* extension of the table is again a source extension, as in the table of the
\* program that maps every source extension to js.
C15_ResolveIdempotentUnchained ==
  unchained(extMapping) =>
    \A k \in 2..Len(resolved) : resolved[k].out = resolved[1].out

C15_Witness ==
  /\ Len(resolved) >= 2
  /\ resolver = "build"
  /\ extMapping = srcFileExtensionMapping
  /\ specifier = sp_relTs
  /\ resolved[1].out # specifier

\* the specifier given to the resolver at its k-th application
givenAt(k) == IF k = 1 THEN specifier ELSE resolved[k - 1].out

isRelative(s) == startsWith(s, s_dotSlash) \/ startsWith(s, s_dotDotSlash)

\* C16: a specifier that begins with ./ or ../ and has no file extension is
\* returned unchanged with exactly one missing-extension diagnostic; one with
\* an extension is returned with only its final extension replaced by what
\* the table gives for it (unchanged when the table does not hold it), with
\* no diagnostic and no event.
C16_RelativeSpecifiers ==
  \A k \in DOMAIN resolved :
    LET s == givenAt(k)
        ext == extOf(s)
    IN isRelative(s) =>
         IF ext = << >>
           THEN resolved[k] = [out |-> s, ev |-> << Console("error") >>]
           ELSE /\ resolved[k].ev = << >>
                /\ resolved[k].out =
                     SubSeq(s, 1, Len(s) - Len(ext))
                       \o (IF ext \in DOMAIN extMapping THEN extMapping[ext] ELSE ext)

C16_Witness ==
  /\ specifier = sp_upJsx
  /\ resolver = "plugin"
  /\ extMapping = srcFileExtensionMapping
  /\ resolved # << >>
  /\ resolved[1] = [out |-> <<".",".","/","c",".","j","s">>, ev |-> << >>]

\* C17: a resolver returns a specifier unchanged by its first rule exactly
\* when the specifier begins with a URL scheme or with /: every specifier with
\* a URL scheme, of whatever scheme, is returned unchanged, and a bare
\* specifier with no URL scheme, such as a package whose name starts with the
\* letters http, is resolved below /web_modules/.
C17_UrlSchemeOrRoot ==
  \A k \in DOMAIN resolved :
    LET s == givenAt(k)
    IN /\ (hasUrlScheme(s) \/ startsWith(s, s_slash)) => resolved[k].out = s
       /\ isBare(s) => /\ startsWith(resolved[k].out, s_webModules)
                       /\ resolved[k].out # s

completesOf(id) ==
  {k \in DOMAIN events : events[k].type = "WORKER_COMPLETE" /\ events[k].id = id}

\* C18: for every build or plugin worker the dispatcher reaches,
\* WorkerUpdate(RUNNING) is its first event, emitted before any of its files
\* is processed; no WorkerComplete of the worker is emitted while a file of
\* the worker is still to be processed; and the worker has at most one
\* WorkerComplete in the run, exactly one once the dispatcher is past it.
C18_OneCompleteAfterLastFile ==
  \A i \in transformIds :
    LET id == relevantWorkers[i].id
    IN /\ eventsOf(id) # << >> => eventsOf(id)[1] = WorkerUpdate(id, "RUNNING")
       /\ (\E k \in DOMAIN writes : writes[k].id = id) => eventsOf(id) # << >>
       /\ (pc \in {"exec", "plugin"} /\ at.w = i) =>
            eventsOf(id) = << WorkerUpdate(id, "RUNNING") >>
       /\ Cardinality(completesOf(id)) <= 1
       /\ (pc \in {"exec", "plugin"} /\ at.w > i) => Cardinality(completesOf(id)) = 1

declaredAt(id) == CHOOSE i \in DOMAIN scripts : scripts[i].id = id

DispatcherOver == pc \in {"join", "done"} \cup BundlePcs

\* C19: the build and plugin workers that write the output of one source file
\* write it in the order of their declaration, and once the Transform
\* Dispatcher is over the file at the output path of a source file is what
\* the last declared of the workers that wrote for it has written.
C19_LastDeclaredWorkerWins ==
  /\ \A k1, k2 \in DOMAIN writes :
       (k1 < k2 /\ writes[k1].f = writes[k2].f)
         => declaredAt(writes[k1].id) < declaredAt(writes[k2].id)
  /\ (DispatcherOver /\ buildDirectoryLoc \in DOMAIN disk) =>
       \A k \in DOMAIN writes :
         (\A j \in DOMAIN writes :
            writes[j].f = writes[k].f => declaredAt(writes[j].id) <= declaredAt(writes[k].id))
           => /\ writes[k].entry \in disk[buildDirectoryLoc]
              /\ \A e \in disk[buildDirectoryLoc] :
                   e.path = outPathOf(writes[k].f) => e = writes[k].entry

C19_Witness ==
  /\ pc = "done"
  /\ ~isBundled
  /\ \E k1, k2 \in DOMAIN writes :
       /\ k1 < k2
       /\ writes[k1].f = writes[k2].f
       /\ writes[k1].id = id_ts
       /\ writes[k2].id = id_svelte
       /\ writes[k1].entry # writes[k2].entry

\* C20: in every run that passes the check for build workers and ends
\* without aborting, a WorkerComplete has been emitted for every worker of
\* relevantWorkers (lint, mount, build and plugin workers, and the bundle
\* marker when bundling is enabled), with or without an include root.
C20_EveryWorkerCompletes ==
  pc = "done" =>
    \A i \in DOMAIN relevantWorkers :
      \/ completesOf(relevantWorkers[i].id) # {}
      \/ /\ i \in DOMAIN lintEvents
         /\ \E n \in DOMAIN lintEvents[i] : lintEvents[i][n].type = "WORKER_COMPLETE"

====
